---- MODULE Spec2Model ----
(***************************************************************************)
(* Model of the session core of smc-python (smc/api/session.py): the       *)
(* process-wide Session (login, logout, http_unauthorized) and its         *)
(* SessionCache (get_api_entry, get_entry_href, get_element_filters), and  *)
(* of the rule fields of smc/policy/rule_elements.py (RuleElement).        *)
(*                                                                         *)
(* Python values are represented as follows.                               *)
(*   None for a string        the string "None"                            *)
(*   None for a transport     NoSession (transports are numbered from 1)   *)
(*   None for a version       NoVersion (versions are floats scaled by 100:*)
(*                            6.5 is 650)                                  *)
(*   api_entry                <<>> is None, <<d>> is the list d            *)
(*   an address (href)        a non-empty sequence of characters           *)
(*   a version identifier     the sequence of its digits: "6.10" is        *)
(*                            <<6, 1, 0>>                                  *)
(*   a returned list l        <<l>>; a returned None is <<>>               *)
(*   a RuleElement dict       which of the keys 'any', 'none' and typeof   *)
(*                            it holds, and the list under typeof          *)
(***************************************************************************)
EXTENDS Integers, Sequences, FiniteSets, TLC

\* ------------------------------------------------------------------------
\* Bounds of the model
\* ------------------------------------------------------------------------
Max401 == 3
MaxTransports == 2
MaxEntries == 3
MaxItems == 3
MaxWrites == 3
MaxCreds == 1
MaxSites == 1

\* ------------------------------------------------------------------------
\* Program constants and representations of None
\* ------------------------------------------------------------------------
NoSession == 0
NoVersion == 0
DefaultTimeout == 10
Threshold401 == 2
HTTP_OK == 200
HTTP_NO_CONTENT == 204
HTTP_UNAUTHORIZED == 401
NoStatus == 0
NoTimeout == 0

None == "None"
NoHref == <<>>

\* ------------------------------------------------------------------------
\* Results of a call: a return value or a raised exception
\* ------------------------------------------------------------------------
Return(val, msg) ==
    [exc |-> None, msg |-> msg, val |-> val, verb |-> None,
     version |-> NoVersion, status |-> NoStatus]

Raise(exc, msg, verb, version, status) ==
    [exc |-> exc, msg |-> msg, val |-> NoHref, verb |-> verb,
     version |-> version, status |-> status]

Raised(r) == r.exc # None

\* One request issued to the server, the status of its response (NoStatus
\* when the transport raised instead of answering) and, for the version
\* discovery, the version identifiers the response lists.
Request(kind, url, version, href, tid, status, versions) ==
    [kind |-> kind, url |-> url, version |-> version, href |-> href,
     tid |-> tid, status |-> status, versions |-> versions]

\* ------------------------------------------------------------------------
\* SessionCache.get_entry_href
\* ------------------------------------------------------------------------
Entry(rel, href) == [rel |-> rel, href |-> href]

\* A lookup that stops at the first entry whose rel equals verb.
RECURSIVE ScanEntriesFirst(_, _, _)
ScanEntriesFirst(entries, verb, href) ==
    IF entries = <<>> THEN href
    ELSE IF Head(entries).rel = verb THEN Head(entries).href
    ELSE ScanEntriesFirst(Tail(entries), verb, href)

\* The loop of get_entry_href: href starts as None and every entry whose
\* rel equals verb overwrites it.
RECURSIVE ScanEntries(_, _, _)
ScanEntries(entries, verb, href) ==
    IF entries = <<>> THEN href
    ELSE ScanEntries(Tail(entries), verb,
                     IF Head(entries).rel = verb THEN Head(entries).href ELSE href)

\* A lookup that hands back whatever the loop left in href.
get_entry_href_unchecked(cache, verb) ==
    IF cache.api_entry # <<>> /\ cache.api_entry[1] # <<>>
    THEN Return(ScanEntries(cache.api_entry[1], verb, NoHref), None)
    ELSE Raise("SMCConnectionError", "No entry points found",
               None, NoVersion, NoStatus)

get_entry_href(cache, verb) ==
    IF cache.api_entry # <<>> /\ cache.api_entry[1] # <<>>
    THEN LET href == ScanEntries(cache.api_entry[1], verb, NoHref)
         IN  IF href = NoHref
             THEN Raise("UnsupportedEntryPoint", "entry point not found",
                        verb, cache.api_version, NoStatus)
             ELSE Return(href, None)
    ELSE Raise("SMCConnectionError", "No entry points found",
               None, NoVersion, NoStatus)

\* ------------------------------------------------------------------------
\* SessionCache.get_element_filters
\* ------------------------------------------------------------------------
\* Strings are sequences of characters. The pattern is the address of
\* 'elements' followed by "/(.*)", compiled as a regular expression: a "."
\* of the address stands for any character, every other character of the
\* addresses modelled here stands for itself.
MatchAt(pattern, s, i) ==
    /\ i + Len(pattern) - 1 <= Len(s)
    /\ \A k \in 1..Len(pattern) : pattern[k] = "." \/ pattern[k] = s[i + k - 1]

\* group(1) of the matches of re.finditer(regex, s): the search takes the
\* leftmost position where the prefix matches and "(.*)" takes the rest of
\* the string, so there is at most one match.
finditer(regex, s) ==
    LET at == { i \in 1..Len(s) : MatchAt(regex, s, i) }
    IN  IF at = {} THEN << >>
        ELSE LET i == CHOOSE j \in at : \A k \in at : j <= k
             IN  << SubSeq(s, i + Len(regex), Len(s)) >>

\* The comprehension over self.api_entry, in the order of the entries.
RECURSIVE element_filters(_, _)
element_filters(regex, entries) ==
    IF entries = << >> THEN << >>
    ELSE finditer(regex, Head(entries).href) \o element_filters(regex, Tail(entries))

get_element_filters(cache) ==
    LET base == get_entry_href(cache, "elements")
    IN  IF Raised(base) THEN base
        ELSE Return(<< element_filters(base.val \o << "/" >>, cache.api_entry[1]) >>,
                    None)

\* ------------------------------------------------------------------------
\* SessionCache.get_api_entry
\* ------------------------------------------------------------------------
\* float(i) of a version identifier, scaled by 100: "6.5" and "6.50" are
\* both 650, "6.10" is 610.
Float(v) ==
    v[1] * 100 + (IF Len(v) >= 2 THEN v[2] * 10 ELSE 0)
               + (IF Len(v) >= 3 THEN v[3] ELSE 0)

\* max(versions) over the floats of the identifiers, left to right.
RECURSIVE MaxFloat(_, _)
MaxFloat(versions, best) ==
    IF versions = <<>> THEN best
    ELSE MaxFloat(Tail(versions),
                  IF Float(Head(versions)) > best THEN Float(Head(versions)) ELSE best)

\* What the server answers to the requests of one login:
\*   fail         ordinal of the discovery GET on which the transport raises
\*                a RequestException (0: none does)
\*   versions     the identifiers listed by <url>/api
\*   status       status of the GET of the versioned root <url>/<version>/api
\*   entry_point  the entry points listed by the versioned root
\*   login        status of the credential POST
Response(fail, versions, status, entry_point, login) ==
    [fail |-> fail, versions |-> versions, status |-> status,
     entry_point |-> entry_point, login |-> login]

get_api_entry(cache, url, api_version, timeout, resp) ==
    LET discover    == api_version = NoVersion
        versionsGET == Request("GET versions", url, NoVersion, NoHref, NoSession,
                               IF resp.fail = 1 THEN NoStatus ELSE HTTP_OK,
                               IF resp.fail = 1 THEN << >> ELSE resp.versions)
        version     == IF discover THEN MaxFloat(resp.versions, NoVersion)
                       ELSE api_version
        rootFails   == resp.fail = (IF discover THEN 2 ELSE 1)
        rootGET     == Request("GET entry points", url, version, NoHref, NoSession,
                               IF rootFails THEN NoStatus ELSE resp.status, << >>)
        before      == IF discover THEN <<versionsGET>> ELSE <<>>
    IN  IF discover /\ resp.fail = 1
        THEN [cache |-> cache, reqs |-> <<versionsGET>>,
              result |-> Raise("SMCConnectionError", "RequestException",
                               None, NoVersion, NoStatus)]
        ELSE IF rootFails
        THEN [cache |-> cache, reqs |-> before \o <<rootGET>>,
              result |-> Raise("SMCConnectionError", "RequestException",
                               None, NoVersion, NoStatus)]
        ELSE IF resp.status = HTTP_OK
        THEN [cache |-> [api_entry |-> <<resp.entry_point>>, api_version |-> version],
              reqs |-> before \o <<rootGET>>,
              result |-> Return(NoHref, None)]
        ELSE [cache |-> cache, reqs |-> before \o <<rootGET>>,
              result |-> Raise("SMCConnectionError", "json was not returned",
                               None, NoVersion, NoStatus)]

\* ------------------------------------------------------------------------
\* Session.login
\* ------------------------------------------------------------------------
\* The outcome of a method of Session: the object after the call, the next
\* fresh transport, what the call returned or raised, the requests it issued.
Outcome(self, next, result, reqs) ==
    [self |-> self, next |-> next, result |-> result, reqs |-> reqs]

LoginArgs(url, api_key, api_version, timeout) ==
    [url |-> url, api_key |-> api_key, api_version |-> api_version,
     timeout |-> timeout]

\* Lines 108-122: entry-point discovery, then the credential POST on a new
\* transport, which is bound to the Session on status 200.
login_tail(self, next, api_version, resp) ==
    LET got   == get_api_entry(self.cache, self.url, api_version, self.timeout, resp)
        self1 == [self EXCEPT !.cache = got.cache]
        href  == get_entry_href(self1.cache, "login")
        s     == next
        post  == Request("POST login", None, NoVersion, href.val, s, resp.login,
                         << >>)
    IN  IF Raised(got.result)
        THEN Outcome(self1, next, got.result, got.reqs)
        ELSE IF Raised(href)
        THEN Outcome(self1, next + 1, href, got.reqs)
        ELSE IF resp.login = HTTP_OK
        THEN Outcome([self1 EXCEPT !.session = s,
                                   !.connection = "SMCAPIConnection"],
                     next + 1, Return(NoHref, "Login succeeded"),
                     got.reqs \o <<post>>)
        ELSE Outcome(self1, next + 1,
                     Raise("SMCConnectionError", "Login failed", None,
                           NoVersion, resp.login),
                     got.reqs \o <<post>>)

\* Lines 97-101 followed by lines 108-122: url and api_key are given.
login_with(self, next, args, resp) ==
    LET self1 == [self EXCEPT !.url = args.url, !.api_key = args.api_key,
                              !.timeout = IF args.timeout # NoTimeout THEN args.timeout
                                          ELSE self.timeout]
    IN  login_tail(self1, next, args.api_version, resp)

\* What load_from_file yields when it raises ConfigLoadError.
NoConfig == LoginArgs(None, None, NoVersion, NoTimeout)

\* Session.login. Without url or api_key the connection settings are read by
\* load_from_file (cfg) and login is called with them; when that call
\* returns, the caller continues at line 108.
login(self, next, args, cfg, resp1, resp2) ==
    IF args.url # None /\ args.api_key # None
    THEN login_with(self, next, args, resp1)
    ELSE IF cfg = NoConfig
    THEN Outcome(self, next,
                 Raise("ConfigLoadError", None, None, NoVersion, NoStatus), <<>>)
    ELSE LET inner == login_with(self, next, cfg, resp1)
             outer == login_tail(inner.self, inner.next, args.api_version, resp2)
         IN  IF Raised(inner.result) THEN inner
             ELSE Outcome(outer.self, outer.next, outer.result,
                          inner.reqs \o outer.reqs)

\* ------------------------------------------------------------------------
\* Session.logout
\* ------------------------------------------------------------------------
logout(self, next, status) ==
    IF self.session # NoSession
    THEN LET href == get_entry_href(self.cache, "logout")
             put  == Request("PUT logout", None, NoVersion, href.val, self.session,
                            status, << >>)
         IN  IF Raised(href) THEN Outcome(self, next, href, <<>>)
             ELSE Outcome(self, next,
                          Return(NoHref,
                                 IF status = HTTP_NO_CONTENT
                                 THEN "Logged out successfully"
                                 ELSE IF status = HTTP_UNAUTHORIZED
                                 THEN "Logout failed, session has already expired"
                                 ELSE "Logout failed"),
                          <<put>>)
    ELSE Outcome(self, next, Return(NoHref, None), <<>>)

\* ------------------------------------------------------------------------
\* Session.http_unauthorized
\* ------------------------------------------------------------------------
\* url and api_key are set whenever a transport is bound, so the login of
\* line 151 never reads the configuration file.
\* A refresh that lets one more failure through (> instead of >=).
http_unauthorized_late(self, next, resp) ==
    LET self1 == [self EXCEPT !.http_401 = self.http_401 + 1]
    IN  IF self1.session # NoSession
        THEN IF self1.http_401 > Threshold401
             THEN Outcome(self1, next,
                          Raise("SMCConnectionError",
                                "Too many HTTP 401 requests received",
                                None, NoVersion, NoStatus), <<>>)
             ELSE login(self1, next,
                        LoginArgs(self1.url, self1.api_key,
                                  self1.cache.api_version, NoTimeout),
                        NoConfig, resp, resp)
        ELSE Outcome(self1, next,
                     Raise("SMCConnectionError", "No previous SMC session found",
                           None, NoVersion, NoStatus), <<>>)

\* A refresh that takes a stored url for a previous login.
http_unauthorized_by_url(self, next, resp) ==
    LET self1 == [self EXCEPT !.http_401 = self.http_401 + 1]
    IN  IF self1.url # None
        THEN IF self1.http_401 >= Threshold401
             THEN Outcome(self1, next,
                          Raise("SMCConnectionError",
                                "Too many HTTP 401 requests received",
                                None, NoVersion, NoStatus), <<>>)
             ELSE login(self1, next,
                        LoginArgs(self1.url, self1.api_key,
                                  self1.cache.api_version, NoTimeout),
                        NoConfig, resp, resp)
        ELSE Outcome(self1, next,
                     Raise("SMCConnectionError", "No previous SMC session found",
                           None, NoVersion, NoStatus), <<>>)

http_unauthorized(self, next, resp) ==
    LET self1 == [self EXCEPT !.http_401 = self.http_401 + 1]
    IN  IF self1.session # NoSession
        THEN IF self1.http_401 >= Threshold401
             THEN Outcome(self1, next,
                          Raise("SMCConnectionError",
                                "Too many HTTP 401 requests received",
                                None, NoVersion, NoStatus), <<>>)
             ELSE login(self1, next,
                        LoginArgs(self1.url, self1.api_key,
                                  self1.cache.api_version, NoTimeout),
                        NoConfig, resp, resp)
        ELSE Outcome(self1, next,
                     Raise("SMCConnectionError", "No previous SMC session found",
                           None, NoVersion, NoStatus), <<>>)

\* ------------------------------------------------------------------------
\* Node and InternalGateway (engines.py): objects built from the json of a
\* resource, changed locally and written back by modify_attribute.
\*   a field mapping      a function from field names to values
\*   server               [json |-> the mapping the server holds,
\*                         etag |-> its version]
\*   proxy                [kind, json |-> vars(self), fetched |-> the etag
\*                         read by get_element_etag]. The object keeps no
\*                         token; for the record the model notes
\*                         loaded |-> the version of the resource that the
\*                         local mapping was taken from, and for the last
\*                         accepted write, basis |-> that version at the
\*                         time and replaced |-> the version overwritten.
\* ------------------------------------------------------------------------
NoEtag == 0

Resource(json, etag) == [json |-> json, etag |-> etag]

Object(kind, json, loaded) ==
    [kind |-> kind, json |-> json, loaded |-> loaded, fetched |-> NoEtag,
     basis |-> NoEtag, replaced |-> NoEtag]

\* dict.update
updated(d, kw) ==
    [k \in DOMAIN d \cup DOMAIN kw |-> IF k \in DOMAIN kw THEN kw[k] ELSE d[k]]

\* Node.modify_attribute, line 428: self.__dict__.update(attribute)
Node_modify_attribute(p, attribute) == [p EXCEPT !.json = updated(p.json, attribute)]

\* InternalGateway.modify_attribute, lines 1176-1178: only the attributes
\* the object already has are set.
InternalGateway_modify_attribute(p, kwargs) ==
    [p EXCEPT !.json = [k \in DOMAIN p.json |->
                           IF k \in DOMAIN kwargs THEN kwargs[k] ELSE p.json[k]]]

\* Lines 9-10 and 1179-1180: the etag of the resource as it is now.
get_element_etag(srv) == srv.etag

\* SMCElement(href, etag, json).update(): a PUT of the whole mapping with
\* the etag as its condition. The server accepts it when the etag is the
\* one it holds; without an etag (Node) the write is either refused or
\* done with the etag of the moment (lenient).
Accepts(srv, etag, lenient) ==
    IF etag = NoEtag THEN lenient ELSE etag = srv.etag

update(srv, json, etag, lenient) ==
    IF Accepts(srv, etag, lenient)
    THEN [server |-> Resource(json, srv.etag + 1),
          result |-> Return(NoHref, None)]
    ELSE [server |-> srv,
          result |-> Raise("UpdateElementFailed", "conflict", None, NoVersion,
                           NoStatus)]

\* An object that takes the server's values back when its write is refused.
returned_rolled_back(p, srv, res) ==
    IF Raised(res) THEN [p EXCEPT !.json = srv.json] ELSE p

\* Lines 429-431 and 1181-1183: the result of update() is returned; the
\* object is left as it is.
returned(p, srv, res) == p

\* The statements of http_unauthorized one by one, as they interleave when
\* two callers run it on the one Session without a lock.
\* Line 144: self.__http_401 += 1
count_401(self) == [self EXCEPT !.http_401 = self.http_401 + 1]

\* Line 145: if self.session is not None
logged_in_previously(self) == self.session # NoSession

\* A test that lets the second failure through as well.
too_many_401_strict(self) == self.http_401 > Threshold401

\* Line 147: if self.__http_401 >= 2
too_many_401(self) == self.http_401 >= Threshold401

\* Lines 151-153: self.login(url=self.url, api_key=self.api_key,
\*                           api_version=self.api_version)
login_again(self, next, resp) ==
    login(self, next,
          LoginArgs(self.url, self.api_key, self.cache.api_version, NoTimeout),
          NoConfig, resp, resp)

\* ------------------------------------------------------------------------
\* RuleElement (smc/policy/rule_elements.py): the source, destination or
\* service field of a rule, a dict with the key 'any', the key 'none' or the
\* key typeof ('src', 'dst', 'service') holding a list of locators.
\*   any, none   the key is present
\*   has         the key typeof is present
\*   list        the list under the key typeof
\* A returned list l is <<l>>, a returned None is <<>>.
\* ------------------------------------------------------------------------
Dict(any, none, has, list) ==
    [any |-> any, none |-> none, has |-> has, list |-> list]

\* MutableMapping.clear: no key is left.
clear(d) == Dict(FALSE, FALSE, FALSE, << >>)

\* An argument of add: a locator string, or an Element whose href the server
\* finds (found) or does not find.
Item(kind, href, found) == [kind |-> kind, href |-> href, found |-> found]

\* smc.base.util.element_resolver on one item: the locator itself, the href
\* of the Element, or ElementNotFound.
element_resolver(item) ==
    IF item.found THEN Return(item.href, None)
    ELSE Raise("ElementNotFound", None, None, NoVersion, NoStatus)

\* element_resolver(list, do_raise=False): the locators of the items that
\* resolve, in order.
RECURSIVE element_resolver_list(_)
element_resolver_list(items) ==
    IF items = << >> THEN << >>
    ELSE (IF Raised(element_resolver(Head(items))) THEN << >>
          ELSE << element_resolver(Head(items)).val >>)
         \o element_resolver_list(Tail(items))

\* Element.from_href: the handle of the element at a locator.
Handle(href) == [href |-> href]

\* ------------------------------------------------------------------------
\* smc.elements.engines.Engine and the engine settings of
\* smc.core.properties (AddOn, SubDict settings)
\*
\* An engine object is [data |-> the field mapping (raw_json in engines.py,
\* self.data in properties.py), nodes, link]. The element as the server
\* holds it is [json, sites |-> the VPN sites of its internal gateway]. search.element_as_json_with_etag, Engine.update(), the
\* autocommit decorator, self.server_credential and vpn_site.create are of
\* modules that are not part of the sources: they are modelled from their
\* use and from the documentation.
\* ------------------------------------------------------------------------
Element(json, sites) == [json |-> json, sites |-> sites]

\* search.element_as_json_with_etag(name): the element's json and etag, or
\* None when no element of that name is found.
element_as_json_with_etag(srv, found) ==
    IF found THEN << srv.json >> ELSE << >>

\* Node(node_type, data); node_type is kept on the class, and the engines of
\* the model have one node.
Node(node_type) == [node_type |-> node_type]

\* Lines 85-93: the Engine that load builds from the json.
Engine(json) ==
    [data |-> json,
     nodes |-> [i \in 1..Len(json.nodes) |-> Node(json.nodes[i])],
     link |-> json.link]

\* Engine.load: a new Engine is built and returned; self is only read for
\* its name.
Engine_load(self, srv, found) ==
    LET result == element_as_json_with_etag(srv, found)
    IN  IF result # << >>
        THEN Return(Engine(result[1]), None)
        ELSE Raise("LoadEngineFailed", "Cannot load engine name", None,
                   NoVersion, NoStatus)

\* Engine.modify_attribute: self.raw_json.update(attribute)
Engine_modify_attribute(self, attribute) ==
    [self EXCEPT !.data = updated(self.data, attribute)]

is_default_nat_enabled(self) == self.data.default_nat

enable_default_nat(self) ==
    IF ~ is_default_nat_enabled(self)
    THEN [self EXCEPT !.data = updated(self.data, [default_nat |-> TRUE])]
    ELSE self

disable_default_nat(self) ==
    IF is_default_nat_enabled(self)
    THEN [self EXCEPT !.data = updated(self.data, [default_nat |-> FALSE])]
    ELSE self

\* add_tls_credential: the list is set to the locators given.
add_tls_credential(self, tls_credentials) ==
    [self EXCEPT !.data = updated(self.data,
        [server_credential |-> element_resolver_list(tls_credentials)])]

\* self.server_credential: the credentials the engine is configured with.
server_credential(self) == self.data.server_credential

\* remove_tls_credential, lines 1138-1141: of the credentials given, those
\* that are not in self.server_credential make the new list.
remove_tls_credential(self, tls_credentials) ==
    LET credentials == element_resolver_list(tls_credentials)
        configured == server_credential(self)
    IN  [self EXCEPT !.data = updated(self.data,
            [server_credential |->
                SelectSeq(credentials,
                          LAMBDA cred : \A i \in 1..Len(configured) :
                                            configured[i] # cred)])]

\* Layer2Settings.connection_tracking, a setter of a SubDict over
\* engine.data['l2fw_settings'].
connection_tracking(self, mode) ==
    IF mode \in { "normal", "strict", "loose" }
    THEN [self EXCEPT !.data.l2fw_settings =
              updated(self.data.l2fw_settings, [tracking_mode |-> mode])]
    ELSE self

\* A decorator that saves at the end of every call.
autocommit_always(kw) == TRUE

\* @autocommit(now=False): the change is saved at the end of the call when
\* the call gives autocommit=True, and queued otherwise.
autocommit(kw) == kw.autocommit

\* Engine.update(): the whole field mapping is written to the element.
Engine_update(self, srv) == [srv EXCEPT !.json = self.data]

\* internal_gateway.vpn_site.create(name, site_elements): a new VPN site
\* on the server.
vpn_site_create(srv, name) == [srv EXCEPT !.sites = Append(srv.sites, name)]

is_any(d) == d.any

is_none(d) == d.none

\* A set_any that adds the marker to whatever the dict holds.
set_any_kept(d) == [d EXCEPT !.any = TRUE]

set_any(d) == [clear(d) EXCEPT !.any = TRUE]

set_none(d) == [clear(d) EXCEPT !.none = TRUE]

\* The outcome of a method of RuleElement: the dict after the call and what
\* the call returned or raised.
Changed(d, result) == [data |-> d, result |-> result]

\* A start of the list that leaves the marker in the dict.
unmark_kept(d) ==
    IF is_none(d) \/ is_any(d) THEN [d EXCEPT !.has = TRUE, !.list = << >>] ELSE d

\* Lines 67-69 and 99-101: a marker is replaced by an empty list.
unmark(d) ==
    IF is_none(d) \/ is_any(d) THEN [clear(d) EXCEPT !.has = TRUE] ELSE d

\* An add that lets ElementNotFound reach the caller.
add_raising(d, item) ==
    LET d1 == unmark(d)
        r  == element_resolver(item)
    IN  IF ~d1.has
        THEN Changed(d1, Raise("AttributeError", None, None, NoVersion, NoStatus))
        ELSE IF Raised(r)
        THEN Changed(d1, r)
        ELSE Changed([d1 EXCEPT !.list = Append(d1.list, r.val)],
                     Return(<< >>, None))

add(d, item) ==
    LET d1 == unmark(d)
        r  == element_resolver(item)
    IN  IF ~d1.has
        THEN Changed(d1, Raise("AttributeError", None, None, NoVersion, NoStatus))
        ELSE IF Raised(r)
        THEN Changed(d1, Return(<< >>, None))
        ELSE Changed([d1 EXCEPT !.list = Append(d1.list, r.val)],
                     Return(<< >>, None))

\* The argument of add_many: any value (islist tells whether it is a list)
\* with its items.
Argument(islist, items) == [islist |-> islist, items |-> items]

\* An add_many that returns at once when it is given no item.
add_many_nonempty(d, arg) ==
    IF ~arg.islist
    THEN Changed(d, Raise("AssertionError", "Incorrect format. Expecting list.",
                          None, NoVersion, NoStatus))
    ELSE IF arg.items = << >> THEN Changed(d, Return(<< >>, None))
    ELSE Changed([unmark(d) EXCEPT !.has = TRUE,
                                   !.list = element_resolver_list(arg.items)],
                 Return(<< >>, None))

\* An add_many that extends the list it finds.
add_many_extend(d, arg) ==
    IF ~arg.islist
    THEN Changed(d, Raise("AssertionError", "Incorrect format. Expecting list.",
                          None, NoVersion, NoStatus))
    ELSE Changed([unmark(d) EXCEPT !.has = TRUE,
                                   !.list = unmark(d).list
                                            \o element_resolver_list(arg.items)],
                 Return(<< >>, None))

add_many(d, arg) ==
    IF ~arg.islist
    THEN Changed(d, Raise("AssertionError", "Incorrect format. Expecting list.",
                          None, NoVersion, NoStatus))
    ELSE Changed([unmark(d) EXCEPT !.has = TRUE,
                                   !.list = element_resolver_list(arg.items)],
                 Return(<< >>, None))

all_as_href(d) ==
    IF ~is_any(d) /\ ~is_none(d)
    THEN IF d.has THEN Changed(d, Return(<< d.list >>, None))
         ELSE Changed(d, Raise("TypeError", None, None, NoVersion, NoStatus))
    ELSE Changed(d, Return(<< >>, None))

\* An all that resolves the first locator only.
all_first(d) ==
    IF ~is_any(d) /\ ~is_none(d)
    THEN IF d.has
         THEN Changed(d, Return(<< IF d.list = << >> THEN << >>
                                   ELSE << Handle(d.list[1]) >> >>, None))
         ELSE Changed(d, Raise("TypeError", None, None, NoVersion, NoStatus))
    ELSE Changed(d, Return(<< << >> >>, None))

all(d) ==
    IF ~is_any(d) /\ ~is_none(d)
    THEN IF d.has
         THEN Changed(d, Return(<< [i \in 1..Len(d.list) |-> Handle(d.list[i])] >>,
                                None))
         ELSE Changed(d, Raise("TypeError", None, None, NoVersion, NoStatus))
    ELSE Changed(d, Return(<< << >> >>, None))

\* ------------------------------------------------------------------------
\* LogOptions (rule_elements.py): the dict under the rule's 'options'. A
\* key that is absent reads as None; the booleans are "True" and "False".
\* ------------------------------------------------------------------------
LogDict(app, accounting, closing, level, user) ==
    [application_logging |-> app, log_accounting_info_mode |-> accounting,
     log_closing_mode |-> closing, log_level |-> level, user_logging |-> user]

LoggingModes == { "off", "default", "enforced" }

LogLevels == { "none", "stored", "transient", "essential", "alert" }

\* bool(x) is false for False and None
Falsy(x) == x \in { "False", None }

application_logging(d, value) ==
    IF value \in LoggingModes THEN [d EXCEPT !.application_logging = value] ELSE d

user_logging(d, value) ==
    IF value \in LoggingModes THEN [d EXCEPT !.user_logging = value] ELSE d

log_accounting_info_mode(d, value) == [d EXCEPT !.log_accounting_info_mode = value]

log_closing_mode(d, value) == [d EXCEPT !.log_closing_mode = value]

log_level(d, value) ==
    LET d1 == IF value \in LogLevels THEN [d EXCEPT !.log_level = value] ELSE d
    IN  IF Falsy(d1.log_accounting_info_mode)
        THEN log_accounting_info_mode(d1, "True")
        ELSE d1

\* ------------------------------------------------------------------------
\* The sessions the server holds for this client, after the requests rs: a
\* credential POST answered 200 opens one for its transport, a logout PUT
\* answered 204 closes it, and a 401 on a transport tells it is gone.
\* ------------------------------------------------------------------------
RECURSIVE ServerSessions(_, _)
ServerSessions(open, rs) ==
    IF rs = << >> THEN open
    ELSE LET r == Head(rs)
         IN  ServerSessions(
                 IF r.kind = "POST login"
                 THEN (IF r.status = HTTP_OK THEN open \cup {r.tid} ELSE open)
                 ELSE IF r.kind = "PUT logout" /\ r.status = HTTP_NO_CONTENT
                 THEN open \ {r.tid}
                 ELSE IF r.status = HTTP_UNAUTHORIZED THEN open \ {r.tid}
                 ELSE open,
                 Tail(rs))

\* ------------------------------------------------------------------------
\* State
\* ------------------------------------------------------------------------
VARIABLES
    url, api_key, timeout, http_401, session, connection,  \* Session
    api_entry, api_version,                                \* SessionCache
    nextTransport,  \* the transport the next requests.session() creates
    op,             \* the last call: its name and, for a lookup, the relation
    result,         \* what the last call returned or raised
    reqs,           \* the requests the last call issued, with their statuses
    episode,        \* history of authorization failures (see Episode)
    given,          \* the arguments of the last call
    live,           \* the transports whose session the server holds open
    data,           \* RuleElement.data, the dict of one rule field
    was,            \* RuleElement.data before the last call on the field
    pc,             \* where each caller stands in the call it is making
    proxy,          \* the local object (Engine, Node, InternalGateway)
    server          \* the resource the server holds for that object

vars == <<url, api_key, timeout, http_401, session, connection, api_entry,
          api_version, nextTransport, op, result, reqs, episode, given, live,
          data, was, pc, proxy, server>>

\* The callers' positions and the proxied resource, left alone by the calls
\* that do not involve them.
objectVars == <<pc, proxy, server>>

\* No caller is inside a call; no object is under consideration.
Callers == { "A", "B" }

Idle == [c \in Callers |-> "idle"]

Nothing == << >>

\* The state of the Session and of the server, left alone by the calls on a
\* rule field.
sessionVars == <<url, api_key, timeout, http_401, session, connection,
                 api_entry, api_version, nextTransport, reqs, episode, live>>

Self ==
    [url |-> url, api_key |-> api_key, timeout |-> timeout,
     http_401 |-> http_401, session |-> session, connection |-> connection,
     cache |-> [api_entry |-> api_entry, api_version |-> api_version]]

Call(name, verb) == [name |-> name, verb |-> verb]

\* ------------------------------------------------------------------------
\* Inputs: what callers pass and what the server answers
\* ------------------------------------------------------------------------
ArgSet ==
    { LoginArgs("u1", "k1", NoVersion, NoTimeout),
      LoginArgs("u2", "k2", 650, 5),
      LoginArgs(None, None, NoVersion, NoTimeout),
      LoginArgs(None, None, 650, NoTimeout) }

\* What load_from_file yields: the stored settings, or its failure.
ConfigSet == { NoConfig, LoginArgs("u1", "k1", NoVersion, 5) }

VersionLists ==
    { << <<6, 1>>, <<6, 2>>, <<6, 5>> >>,
      << <<6, 2>>, <<6, 1, 0>> >> }

Directories ==
    { << Entry("login", <<"a">>), Entry("elements", <<"e">>),
         Entry("login", <<"c">>), Entry("logout", <<"b">>) >>,
      << Entry("login", <<"a">>) >>,
      << >> }

LoginStatuses == { HTTP_OK, HTTP_UNAUTHORIZED }
LogoutStatuses == { HTTP_NO_CONTENT, HTTP_UNAUTHORIZED, 500 }
CallStatuses == { HTTP_OK, HTTP_UNAUTHORIZED }

ResponseSet ==
    { Response(f, << <<6, 1>>, <<6, 2>>, <<6, 5>> >>, 404, << >>,
               NoStatus) : f \in {0, 1, 2} }
    \cup { Response(0, v, HTTP_OK, d, l) :
             v \in VersionLists, d \in Directories, l \in LoginStatuses }

Relations == { "login", "logout", "elements" }

\* ------------------------------------------------------------------------
\* Episodes of authorization failure, as the callers of the Session see them
\*   clean     no failure is pending: the last authenticated call succeeded
\*   failed    an authenticated call got 401 and http_unauthorized is due
\*   reauthed  http_unauthorized logged in again, no authenticated call yet
\*   broken    the calls so far are not a sequence of isolated failures
\* ------------------------------------------------------------------------
EpisodeAfterCall(e, status) ==
    IF e = "broken" THEN "broken"
    ELSE IF status = HTTP_OK THEN (IF e = "failed" THEN "broken" ELSE "clean")
    ELSE (IF e = "clean" THEN "failed" ELSE "broken")

EpisodeAfterReauth(e, r) ==
    IF e = "failed" /\ ~Raised(r) THEN "reauthed" ELSE "broken"

\* ------------------------------------------------------------------------
\* Init: Session.__init__ and the SessionCache the cache property creates
\* ------------------------------------------------------------------------
Init ==
    /\ url = None
    /\ api_key = None
    /\ timeout = DefaultTimeout
    /\ http_401 = 0
    /\ session = NoSession
    /\ connection = None
    /\ api_entry = << >>
    /\ api_version = NoVersion
    /\ nextTransport = 1
    /\ op = Call("__init__", None)
    /\ result = Return(NoHref, None)
    /\ reqs = << >>
    /\ episode = "clean"
    /\ given = << >>
    /\ live = {}
    /\ data = set_none(Dict(FALSE, FALSE, FALSE, << >>))
    /\ was = data
    /\ pc = Idle
    /\ proxy = Nothing
    /\ server = Nothing

\* The state after a method of Session has run to its return or raise.
Becomes(out) ==
    /\ url' = out.self.url
    /\ api_key' = out.self.api_key
    /\ timeout' = out.self.timeout
    /\ http_401' = out.self.http_401
    /\ session' = out.self.session
    /\ connection' = out.self.connection
    /\ api_entry' = out.self.cache.api_entry
    /\ api_version' = out.self.cache.api_version
    /\ nextTransport' = out.next
    /\ result' = out.result
    /\ reqs' = out.reqs

\* ------------------------------------------------------------------------
\* Actions: one per call on the Session
\* ------------------------------------------------------------------------
Login ==
    /\ nextTransport <= MaxTransports
    /\ \E args \in ArgSet, cfg \in ConfigSet, resp1 \in ResponseSet :
         /\ given' = << args >>
         /\ IF \/ args.url # None /\ args.api_key # None
               \/ cfg = NoConfig
               \/ Raised(login_with(Self, nextTransport, cfg, resp1).result)
            \* the answers to a second round of requests are never read
            THEN Becomes(login(Self, nextTransport, args, cfg, resp1, resp1))
            ELSE \E resp2 \in ResponseSet :
                   Becomes(login(Self, nextTransport, args, cfg, resp1, resp2))
    /\ op' = Call("login", None)
    /\ live' = ServerSessions(live, reqs')
    /\ UNCHANGED <<episode, data, was, objectVars>>

Logout ==
    /\ \E status \in LogoutStatuses :
         Becomes(logout(Self, nextTransport, status))
    /\ op' = Call("logout", None)
    /\ given' = << >>
    /\ live' = ServerSessions(live, reqs')
    /\ UNCHANGED <<episode, data, was, objectVars>>

HttpUnauthorized ==
    /\ http_401 < Max401
    /\ \E resp \in ResponseSet :
         Becomes(http_unauthorized(Self, nextTransport, resp))
    /\ op' = Call("http_unauthorized", None)
    /\ episode' = EpisodeAfterReauth(episode, result')
    /\ given' = << >>
    /\ live' = ServerSessions(live, reqs')
    /\ UNCHANGED <<data, was, objectVars>>

\* An authenticated request made by the SMCAPIConnection on the bound
\* transport; the Session itself is not touched.
AuthenticatedCall ==
    /\ session # NoSession
    /\ \E status \in CallStatuses :
         /\ reqs' = << Request("GET element", None, NoVersion, NoHref,
                               session, status, << >>) >>
         /\ result' = Return(NoHref, None)
         /\ episode' = EpisodeAfterCall(episode, status)
    /\ op' = Call("request", None)
    /\ given' = << >>
    /\ live' = ServerSessions(live, reqs')
    /\ UNCHANGED <<url, api_key, timeout, http_401, session, connection,
                   api_entry, api_version, nextTransport, data, was, objectVars>>

GetEntryHref ==
    /\ \E verb \in Relations :
         /\ result' = get_entry_href(Self.cache, verb)
         /\ op' = Call("get_entry_href", verb)
    /\ reqs' = << >>
    /\ given' = << >>
    /\ UNCHANGED <<url, api_key, timeout, http_401, session, connection,
                   api_entry, api_version, nextTransport, episode, live, data, was,
                   objectVars>>

Next ==
    \/ Login
    \/ Logout
    \/ HttpUnauthorized
    \/ AuthenticatedCall
    \/ GetEntryHref

Spec == Init /\ [][Next]_vars

\* ------------------------------------------------------------------------
\* Lookups in arbitrary directories: the SessionCache after a discovery
\* that a login made for "u1" (no transport bound yet), or before any
\* discovery succeeded.
\* ------------------------------------------------------------------------
Hrefs == { <<"a">>, <<"b">> }

EntrySet == { Entry(r, h) : r \in Relations, h \in Hrefs }

AllDirectories == UNION { [1..n -> EntrySet] : n \in 0..MaxEntries }

InitLookup ==
    /\ url = "u1"
    /\ api_key = "k1"
    /\ timeout = DefaultTimeout
    /\ http_401 = 0
    /\ session = NoSession
    /\ connection = None
    /\ \/ api_entry = << >> /\ api_version = NoVersion
       \/ api_entry \in { <<d>> : d \in AllDirectories } /\ api_version \in {620, 650}
    /\ nextTransport = 1
    /\ op = Call("login", None)
    /\ result = Return(NoHref, None)
    /\ reqs = << >>
    /\ episode = "clean"
    /\ given = << >>
    /\ live = {}
    /\ data = set_none(Dict(FALSE, FALSE, FALSE, << >>))
    /\ was = data
    /\ pc = Idle
    /\ proxy = Nothing
    /\ server = Nothing

SpecLookup == InitLookup /\ [][GetEntryHref]_vars

\* ------------------------------------------------------------------------
\* Filter contexts of arbitrary directories whose addresses share prefixes.
\* ------------------------------------------------------------------------
FilterHrefs ==
    { <<"e">>, <<".">>, <<"e", "/", "h">>, <<"e", "/", "n">>,
      <<"x", "e", "/", "h">> }

FilterEntrySet == { Entry(r, h) : r \in {"elements", "login"}, h \in FilterHrefs }

FilterDirectories == UNION { [1..n -> FilterEntrySet] : n \in 0..MaxEntries }

InitFilters ==
    /\ url = "u1"
    /\ api_key = "k1"
    /\ timeout = DefaultTimeout
    /\ http_401 = 0
    /\ session = NoSession
    /\ connection = None
    /\ api_entry \in { <<d>> : d \in FilterDirectories }
    /\ api_version = 650
    /\ nextTransport = 1
    /\ op = Call("login", None)
    /\ result = Return(NoHref, None)
    /\ reqs = << >>
    /\ episode = "clean"
    /\ given = << >>
    /\ live = {}
    /\ data = set_none(Dict(FALSE, FALSE, FALSE, << >>))
    /\ was = data
    /\ pc = Idle
    /\ proxy = Nothing
    /\ server = Nothing

GetElementFilters ==
    /\ result' = get_element_filters(Self.cache)
    /\ op' = Call("get_element_filters", None)
    /\ reqs' = << >>
    /\ given' = << >>
    /\ UNCHANGED <<url, api_key, timeout, http_401, session, connection,
                   api_entry, api_version, nextTransport, episode, live, data, was,
                   objectVars>>

SpecFilters == InitFilters /\ [][GetElementFilters]_vars

\* ------------------------------------------------------------------------
\* One rule field (Source, Destination or Service) under arbitrary calls of
\* its methods.
\* ------------------------------------------------------------------------
RuleHrefs == { <<"a">>, <<"b">> }

\* A locator string, an Element the server finds, an Element it does not.
ItemSet ==
    { Item("href", <<"a">>, TRUE), Item("Element", <<"b">>, TRUE),
      Item("Element", NoHref, FALSE) }

Lists(S, n) == UNION { [1..k -> S] : k \in 0..n }

\* Lists of items, and values that are not lists (a single locator, a tuple).
ArgumentSet ==
    { Argument(TRUE, l) : l \in Lists(ItemSet, MaxItems - 1) }
        \cup { Argument(FALSE, << >>), Argument(FALSE, << Item("href", <<"a">>, TRUE) >>) }

\* __init__: {'none': True} without a rule, else what the rule holds for the
\* field: {'any': True}, {'none': True} or a list of locators.
InitRule ==
    /\ url = None
    /\ api_key = None
    /\ timeout = DefaultTimeout
    /\ http_401 = 0
    /\ session = NoSession
    /\ connection = None
    /\ api_entry = << >>
    /\ api_version = NoVersion
    /\ nextTransport = 1
    /\ op = Call("__init__", None)
    /\ result = Return(NoHref, None)
    /\ reqs = << >>
    /\ episode = "clean"
    /\ given = << >>
    /\ live = {}
    /\ data \in { set_any(Dict(FALSE, FALSE, FALSE, << >>)),
                  set_none(Dict(FALSE, FALSE, FALSE, << >>)) }
                \cup { Dict(FALSE, FALSE, TRUE, l) : l \in Lists(RuleHrefs, MaxItems - 1) }
    /\ was = data
    /\ pc = Idle
    /\ proxy = Nothing
    /\ server = Nothing

\* A call on the field: the dict and the result become those of out.
Turns(args, out) ==
    /\ given' = args
    /\ was' = data
    /\ data' = out.data
    /\ result' = out.result
    /\ UNCHANGED <<sessionVars, objectVars>>

SetAny ==
    /\ op' = Call("set_any", None)
    /\ Turns(<< >>, Changed(set_any(data), Return(NoHref, None)))

SetNone ==
    /\ op' = Call("set_none", None)
    /\ Turns(<< >>, Changed(set_none(data), Return(NoHref, None)))

Add ==
    /\ Len(data.list) < MaxItems
    /\ op' = Call("add", None)
    /\ \E item \in ItemSet : Turns(<< item >>, add(data, item))

AddMany ==
    /\ op' = Call("add_many", None)
    /\ \E arg \in ArgumentSet : Turns(<< arg >>, add_many(data, arg))

All ==
    /\ op' = Call("all", None)
    /\ Turns(<< >>, all(data))

AllAsHref ==
    /\ op' = Call("all_as_href", None)
    /\ Turns(<< >>, all_as_href(data))

NextRule ==
    \/ SetAny
    \/ SetNone
    \/ Add
    \/ AddMany
    \/ All
    \/ AllAsHref

SpecRule == InitRule /\ [][NextRule]_vars

\* ------------------------------------------------------------------------
\* The log options of one rule under arbitrary assignments to its
\* properties; data holds the LogOptions dict.
\* ------------------------------------------------------------------------
Booleans == { "True", "False" }

\* What a caller may assign to an enumerated property.
AssignedValues == LoggingModes \cup LogLevels \cup { "undefined", "on" }

\* __init__: the defaults without a rule, else the options of the rule.
InitLog ==
    /\ url = None
    /\ api_key = None
    /\ timeout = DefaultTimeout
    /\ http_401 = 0
    /\ session = NoSession
    /\ connection = None
    /\ api_entry = << >>
    /\ api_version = NoVersion
    /\ nextTransport = 1
    /\ op = Call("__init__", None)
    /\ result = Return(NoHref, None)
    /\ reqs = << >>
    /\ episode = "clean"
    /\ given = << >>
    /\ live = {}
    /\ data \in { LogDict(None, "False", "True", "undefined", None) }
                \cup { LogDict(a, m, "True", l, None) :
                         a \in { None, "off" }, m \in Booleans \cup { None },
                         l \in { "undefined", "stored" } }
    /\ was = data
    /\ pc = Idle
    /\ proxy = Nothing
    /\ server = Nothing

Assigns(value, d) ==
    /\ given' = << value >>
    /\ was' = data
    /\ data' = d
    /\ result' = Return(NoHref, None)
    /\ UNCHANGED <<sessionVars, objectVars>>

SetLogLevel ==
    /\ op' = Call("log_level", None)
    /\ \E value \in AssignedValues : Assigns(value, log_level(data, value))

SetApplicationLogging ==
    /\ op' = Call("application_logging", None)
    /\ \E value \in AssignedValues : Assigns(value, application_logging(data, value))

SetUserLogging ==
    /\ op' = Call("user_logging", None)
    /\ \E value \in AssignedValues : Assigns(value, user_logging(data, value))

SetLogAccountingInfoMode ==
    /\ op' = Call("log_accounting_info_mode", None)
    /\ \E value \in Booleans : Assigns(value, log_accounting_info_mode(data, value))

SetLogClosingMode ==
    /\ op' = Call("log_closing_mode", None)
    /\ \E value \in Booleans : Assigns(value, log_closing_mode(data, value))

NextLog ==
    \/ SetLogLevel
    \/ SetApplicationLogging
    \/ SetUserLogging
    \/ SetLogAccountingInfoMode
    \/ SetLogClosingMode

SpecLog == InitLog /\ [][NextLog]_vars

\* ------------------------------------------------------------------------
\* Two callers share the Session. The session that transport 1 held on the
\* server has expired once; each caller has a request in flight on that
\* transport, is answered 401 and calls http_unauthorized. Nothing
\* serialises the callers: their statements interleave.
\* ------------------------------------------------------------------------
InitRace ==
    /\ url = "u1"
    /\ api_key = "k1"
    /\ timeout = DefaultTimeout
    /\ http_401 = 0
    /\ session = 1
    /\ connection = "SMCAPIConnection"
    /\ api_entry = << << Entry("login", <<"a">>), Entry("logout", <<"b">>) >> >>
    /\ api_version = 650
    /\ nextTransport = 2
    /\ op = Call("request", None)
    /\ result = Return(NoHref, None)
    /\ reqs = << >>
    /\ episode = "clean"
    /\ given = << >>
    /\ live = {}
    /\ data = set_none(Dict(FALSE, FALSE, FALSE, << >>))
    /\ was = data
    /\ pc = [c \in Callers |-> "sent"]
    /\ proxy = Nothing
    /\ server = Nothing

\* The answer to the request in flight: 401, the session has expired.
Receive401(c) ==
    /\ pc[c] = "sent"
    /\ pc' = [pc EXCEPT ![c] = "unauthorized"]
    /\ op' = Call("request", c)
    /\ reqs' = << Request("GET element", None, NoVersion, NoHref, 1,
                          HTTP_UNAUTHORIZED, << >>) >>
    /\ result' = Return(NoHref, None)
    /\ UNCHANGED <<url, api_key, timeout, http_401, session, connection,
                   api_entry, api_version, nextTransport, episode, given, live,
                   data, was, proxy, server>>

Count401(c) ==
    /\ pc[c] = "unauthorized"
    /\ pc' = [pc EXCEPT ![c] = "counted"]
    /\ http_401' = count_401(Self).http_401
    /\ op' = Call("http_unauthorized", c)
    /\ reqs' = << >>
    /\ result' = Return(NoHref, None)
    /\ UNCHANGED <<url, api_key, timeout, session, connection, api_entry,
                   api_version, nextTransport, episode, given, live, data, was,
                   proxy, server>>

Check401(c) ==
    /\ pc[c] = "counted"
    /\ pc' = [pc EXCEPT ![c] = IF ~logged_in_previously(Self) THEN "no_session"
                                ELSE IF too_many_401(Self) THEN "too_many"
                                ELSE "login"]
    /\ result' = IF ~logged_in_previously(Self)
                 THEN Raise("SMCConnectionError", "No previous SMC session found",
                            None, NoVersion, NoStatus)
                 ELSE IF too_many_401(Self)
                 THEN Raise("SMCConnectionError",
                            "Too many HTTP 401 requests received",
                            None, NoVersion, NoStatus)
                 ELSE Return(NoHref, None)
    /\ op' = Call("http_unauthorized", c)
    /\ reqs' = << >>
    /\ UNCHANGED <<url, api_key, timeout, http_401, session, connection,
                   api_entry, api_version, nextTransport, episode, given, live,
                   data, was, proxy, server>>

LoginAgain(c) ==
    /\ pc[c] = "login"
    /\ \E resp \in ResponseSet :
         Becomes(login_again(Self, nextTransport, resp))
    /\ pc' = [pc EXCEPT ![c] = IF Raised(result') THEN "login_failed"
                                ELSE "logged_in"]
    /\ op' = Call("http_unauthorized", c)
    /\ live' = ServerSessions(live, reqs')
    /\ UNCHANGED <<episode, given, data, was, proxy, server>>

NextRace ==
    \E c \in Callers :
        \/ Receive401(c)
        \/ Count401(c)
        \/ Check401(c)
        \/ LoginAgain(c)

SpecRace == InitRace /\ [][NextRace]_vars

\* ------------------------------------------------------------------------
\* One Node or InternalGateway object of this client and another client
\* writing to the same resource.
\* ------------------------------------------------------------------------
FieldNames == { "a", "b" }

Original == [k \in FieldNames |-> "orig"]

\* modify_attribute(a='mine'), (b='mine'), and an attribute the object does
\* not have.
KwargsSet == { [k \in {f} |-> "mine"] : f \in FieldNames \cup { "z" } }

InitCommit ==
    /\ url = "u1"
    /\ api_key = "k1"
    /\ timeout = DefaultTimeout
    /\ http_401 = 0
    /\ session = 1
    /\ connection = "SMCAPIConnection"
    /\ api_entry = << << Entry("login", <<"a">>), Entry("logout", <<"b">>) >> >>
    /\ api_version = 650
    /\ nextTransport = 2
    /\ op = Call("load", None)
    /\ result = Return(NoHref, None)
    /\ reqs = << >>
    /\ episode = "clean"
    /\ given = << >>
    /\ live = {1}
    /\ data = set_none(Dict(FALSE, FALSE, FALSE, << >>))
    /\ was = data
    /\ server = Resource(Original, 1)
    /\ proxy \in { Object(kind, server.json, server.etag) :
                     kind \in { "Node", "InternalGateway" } }
    /\ pc = "loaded"

commitFrame == <<url, api_key, timeout, http_401, session, connection,
                 api_entry, api_version, nextTransport, episode, live, data, was>>

\* The object is built anew from the resource as the server holds it.
LoadObject ==
    /\ pc \in { "accepted", "rejected" }
    /\ proxy' = Object(proxy.kind, server.json, server.etag)
    /\ pc' = "loaded"
    /\ op' = Call("load", None)
    /\ given' = << >>
    /\ reqs' = << Request("GET element", None, NoVersion, NoHref, session,
                          HTTP_OK, << >>) >>
    /\ result' = Return(NoHref, None)
    /\ UNCHANGED <<commitFrame, server>>

\* modify_attribute, first statement: the local change.
ModifyLocally ==
    /\ pc \in { "loaded", "accepted", "rejected" }
    /\ \E kwargs \in KwargsSet :
         /\ given' = << kwargs >>
         /\ proxy' = IF proxy.kind = "Node"
                     THEN Node_modify_attribute(proxy, kwargs)
                     ELSE InternalGateway_modify_attribute(proxy, kwargs)
    /\ pc' = IF proxy.kind = "Node" THEN "fetched" ELSE "changed"
    /\ op' = Call("modify_attribute", None)
    /\ reqs' = << >>
    /\ result' = Return(NoHref, None)
    /\ UNCHANGED <<commitFrame, server>>

\* InternalGateway.modify_attribute, lines 1179-1180.
FetchEtag ==
    /\ pc = "changed"
    /\ proxy' = [proxy EXCEPT !.fetched = get_element_etag(server)]
    /\ pc' = "fetched"
    /\ op' = Call("modify_attribute", None)
    /\ reqs' = << Request("GET element", None, NoVersion, NoHref, session,
                          HTTP_OK, << >>) >>
    /\ result' = Return(NoHref, None)
    /\ UNCHANGED <<commitFrame, server, given>>

\* modify_attribute, last statement: the write.
Put ==
    /\ pc = "fetched"
    /\ server.etag < MaxWrites
    /\ \E lenient \in BOOLEAN :
         LET out == update(server, proxy.json, proxy.fetched, lenient)
         IN  /\ server' = out.server
             /\ result' = out.result
             /\ proxy' = LET p == returned(proxy, server, out.result)
                         IN  IF Raised(out.result) THEN p
                             ELSE [p EXCEPT !.basis = proxy.loaded,
                                            !.replaced = server.etag,
                                            !.loaded = server.etag + 1]
             /\ reqs' = << Request("PUT element", None, NoVersion, NoHref, session,
                                   IF Raised(out.result) THEN 409 ELSE HTTP_OK,
                                   << >>) >>
    /\ pc' = IF Raised(result') THEN "rejected" ELSE "accepted"
    /\ op' = Call("modify_attribute", None)
    /\ UNCHANGED <<commitFrame, given>>

\* Another client changes a field of the resource.
OtherClientWrites ==
    /\ server.etag < MaxWrites
    /\ \E f \in FieldNames :
         server' = Resource([server.json EXCEPT ![f] = "theirs"], server.etag + 1)
    /\ UNCHANGED <<commitFrame, proxy, pc, op, given, reqs, result>>

NextCommit ==
    \/ LoadObject
    \/ ModifyLocally
    \/ FetchEtag
    \/ Put
    \/ OtherClientWrites

SpecCommit == InitCommit /\ [][NextCommit]_vars

\* ------------------------------------------------------------------------
\* One Engine object of this client, its settings, and the element on the
\* server. pc is "called" after a call of this client and "elsewhere"
\* after a step of another client.
\* ------------------------------------------------------------------------
\* The engine as created: two TLS credentials configured.
EngineJson ==
    [default_nat |-> FALSE,
     server_credential |-> << <<"a">>, <<"b">> >>,
     l2fw_settings |-> [tracking_mode |-> "normal"],
     comment |-> "orig",
     nodes |-> << "firewall_node" >>,
     link |-> << "self" >>]

\* TLS credentials given by locator or as an element: one that is
\* configured, one that is not.
CredentialSet == { Item("href", <<"a">>, TRUE), Item("Element", <<"c">>, TRUE) }

CredentialLists == Lists(CredentialSet, MaxCreds)

\* **kw of the decorated functions
KwSet == { [autocommit |-> b] : b \in BOOLEAN }

\* engine = Engine(name).load()
InitEngine ==
    /\ url = "u1"
    /\ api_key = "k1"
    /\ timeout = DefaultTimeout
    /\ http_401 = 0
    /\ session = 1
    /\ connection = "SMCAPIConnection"
    /\ api_entry = << << Entry("login", <<"a">>), Entry("logout", <<"b">>) >> >>
    /\ api_version = 650
    /\ nextTransport = 2
    /\ op = Call("load", None)
    /\ reqs = << >>
    /\ episode = "clean"
    /\ given = << >>
    /\ live = {1}
    /\ data = set_none(Dict(FALSE, FALSE, FALSE, << >>))
    /\ was = data
    /\ server = Element(EngineJson, << >>)
    /\ result = Engine_load(Nothing, server, TRUE)
    /\ proxy = result.val
    /\ pc = "called"

engineFrame == commitFrame

Get(status) ==
    Request("GET element", None, NoVersion, NoHref, session, status, << >>)

Write(verb) ==
    Request(verb, None, NoVersion, NoHref, session, HTTP_OK, << >>)

\* engine.load() on the loaded engine; the search finds the element or, when
\* it has been deleted or renamed since, does not.
Load ==
    /\ op' = Call("load", None)
    /\ given' = << >>
    /\ \E found \in BOOLEAN :
         /\ result' = Engine_load(proxy, server, found)
         /\ reqs' = << Get(IF found THEN HTTP_OK ELSE 404) >>
    /\ pc' = "called"
    /\ UNCHANGED <<engineFrame, proxy, server>>

\* A setter called with or without autocommit=True has run and left the
\* engine as q; when it is to commit, update() follows in the same call.
Sets(requested, commit, args, q) ==
    /\ given' = << [autocommit |-> requested, args |-> args] >>
    /\ proxy' = q
    /\ server' = IF commit THEN Engine_update(q, server) ELSE server
    /\ reqs' = IF commit THEN << Write("PUT element") >> ELSE << >>
    /\ result' = Return(NoHref, None)
    /\ pc' = "called"
    /\ UNCHANGED engineFrame

ModifyAttribute ==
    /\ op' = Call("modify_attribute", None)
    /\ \E attribute \in { [comment |-> "mine"] } :
         Sets(FALSE, FALSE, attribute, Engine_modify_attribute(proxy, attribute))

EnableDefaultNat ==
    /\ op' = Call("enable_default_nat", None)
    /\ \E kw \in KwSet : Sets(kw.autocommit, autocommit(kw), << >>, enable_default_nat(proxy))

DisableDefaultNat ==
    /\ op' = Call("disable_default_nat", None)
    /\ \E kw \in KwSet : Sets(kw.autocommit, autocommit(kw), << >>, disable_default_nat(proxy))

AddTlsCredential ==
    /\ op' = Call("add_tls_credential", None)
    /\ \E kw \in KwSet, tls_credentials \in CredentialLists :
         Sets(kw.autocommit, autocommit(kw), tls_credentials,
              add_tls_credential(proxy, tls_credentials))

RemoveTlsCredential ==
    /\ op' = Call("remove_tls_credential", None)
    /\ \E kw \in KwSet, tls_credentials \in CredentialLists :
         Sets(kw.autocommit, autocommit(kw), tls_credentials,
              remove_tls_credential(proxy, tls_credentials))

ConnectionTracking ==
    /\ op' = Call("connection_tracking", None)
    /\ \E mode \in { "strict", "off" } :
         Sets(FALSE, FALSE, mode, connection_tracking(proxy, mode))

\* add_vpn_site: the site is created on the server in the call.
AddVpnSite ==
    /\ op' = Call("add_vpn_site", None)
    /\ Len(server.sites) < MaxSites
    /\ given' = << [autocommit |-> FALSE, args |-> "site"] >>
    /\ server' = vpn_site_create(server, "site")
    /\ reqs' = << Write("POST vpn_site") >>
    /\ result' = Return(<<"site">>, None)
    /\ pc' = "called"
    /\ UNCHANGED <<engineFrame, proxy>>

\* engine.update()
Update ==
    /\ op' = Call("update", None)
    /\ given' = << >>
    /\ server' = Engine_update(proxy, server)
    /\ reqs' = << Write("PUT element") >>
    /\ result' = Return(NoHref, None)
    /\ pc' = "called"
    /\ UNCHANGED <<engineFrame, proxy>>

\* Another client changes the element: a field and the links it offers.
OtherClientChanges ==
    /\ server' = [server EXCEPT !.json =
                     updated(server.json, [comment |-> "theirs",
                                           link |-> << "self", "x" >>])]
    /\ pc' = "elsewhere"
    /\ UNCHANGED <<engineFrame, proxy, op, given, reqs, result>>

NextEngine ==
    \/ Load
    \/ ModifyAttribute
    \/ EnableDefaultNat
    \/ DisableDefaultNat
    \/ AddTlsCredential
    \/ RemoveTlsCredential
    \/ ConnectionTracking
    \/ AddVpnSite
    \/ Update
    \/ OtherClientChanges

SpecEngine == InitEngine /\ [][NextEngine]_vars

\* ------------------------------------------------------------------------
\* Vocabulary of the properties
\* ------------------------------------------------------------------------
TooMany401 == "Too many HTTP 401 requests received"
NoPreviousSession == "No previous SMC session found"

Posts(rs) == SelectSeq(rs, LAMBDA r : r.kind = "POST login")

\* The positions of the directory d that carry the relation verb.
Matches(d, verb) == { i \in 1..Len(d) : d[i].rel = verb }

LastMatch(d, verb) ==
    CHOOSE i \in Matches(d, verb) : \A j \in Matches(d, verb) : j <= i

\* ------------------------------------------------------------------------
\* Properties of Session.http_unauthorized
\* ------------------------------------------------------------------------
\* C1: with a transport bound, http_unauthorized logs in again at most once:
\* the call that takes the failure counter from 0 to 1 re-invokes login, no
\* other call does, the counter never goes back, and a call that leaves the
\* counter at 2 or more raises SMCConnectionError (too many 401) without
\* issuing a request.
C1_ReloginAtMostOnce ==
    [][ /\ http_401' >= http_401
        /\ (op'.name = "http_unauthorized" /\ session # NoSession) =>
             /\ http_401 = 0 => reqs' # << >>
             /\ reqs' # << >> => http_401 = 0 /\ http_401' = 1
             /\ http_401' >= Threshold401 =>
                  /\ result'.exc = "SMCConnectionError"
                  /\ result'.msg = TooMany401
                  /\ reqs' = << >>
      ]_vars

\* C1 witness: the third call on a bound transport was refused.
C1_Witness ==
    /\ op.name = "http_unauthorized"
    /\ session # NoSession
    /\ http_401 = 3
    /\ result.msg = TooMany401
    /\ reqs = << >>

\* C2: when http_unauthorized re-invoked login and the login succeeded, the
\* failure counter is 0 and a transport is bound.
C2_CounterResetOnRelogin ==
    (op.name = "http_unauthorized" /\ ~Raised(result)) =>
        (http_401 = 0 /\ session # NoSession /\ connection # None)

\* C3: a failure that is isolated (the failure before it was followed by a
\* successful http_unauthorized and then by a successful authenticated call)
\* is retried: http_unauthorized re-invokes login and is not refused.
C3_IsolatedFailuresRetry ==
    [][ (op'.name = "http_unauthorized" /\ episode = "failed") =>
          /\ reqs' # << >>
          /\ result'.msg \notin {TooMany401, NoPreviousSession}
      ]_vars

\* C4: http_unauthorized on a Session with no bound transport raises
\* SMCConnectionError (no previous session) and issues no request at all.
C4_NoSessionNoRequest ==
    [][ (op'.name = "http_unauthorized" /\ session = NoSession) =>
          /\ result'.exc = "SMCConnectionError"
          /\ result'.msg = NoPreviousSession
          /\ reqs' = << >>
          /\ session' = NoSession
      ]_vars

\* C4 witness: the call was made after a login whose credential POST was
\* rejected, so the url is stored but no transport is bound.
C4_Witness ==
    /\ op.name = "http_unauthorized"
    /\ session = NoSession
    /\ url # None
    /\ result.msg = NoPreviousSession
    /\ reqs = << >>

\* ------------------------------------------------------------------------
\* Properties of Session.login and Session.logout
\* ------------------------------------------------------------------------
\* C5: a login that reaches the credential POST succeeds exactly when the
\* POST returns 200 and then binds the transport of that POST; on any other
\* status it raises SMCConnectionError carrying the status and leaves the
\* transport bound before the call as it was.
C5_LoginBindsOn200Only ==
    [][ (op'.name = "login" /\ Posts(reqs') # << >>) =>
          LET post == Posts(reqs')[Len(Posts(reqs'))]
          IN  /\ ~Raised(result') <=> post.status = HTTP_OK
              /\ ~Raised(result') => session' = post.tid
              /\ Raised(result') =>
                   /\ result'.exc = "SMCConnectionError"
                   /\ result'.status = post.status
                   /\ session' = session
      ]_vars

\* C6: after logout the Session holds no transport: a logout that follows
\* issues no request and an http_unauthorized that follows finds no previous
\* session.
C6_LogoutUnbinds ==
    [][ /\ op'.name = "logout" => session' = NoSession
        /\ (op.name = "logout" /\ op'.name = "logout") => reqs' = << >>
        /\ (op.name = "logout" /\ op'.name = "http_unauthorized") =>
             result'.msg = NoPreviousSession
      ]_vars

\* C7: when http_unauthorized is refused on the threshold, the bound
\* transport is dropped.
C7_ThresholdUnbinds ==
    (op.name = "http_unauthorized" /\ result.msg = TooMany401) =>
        (session = NoSession /\ connection = None)

\* C8: logout never raises, whatever the state of the Session.
C8_LogoutNeverRaises ==
    op.name = "logout" => ~Raised(result)

\* ------------------------------------------------------------------------
\* Properties of SessionCache.get_entry_href
\* ------------------------------------------------------------------------
\* C9: in a non-empty directory, looking up a relation that occurs in it
\* returns the address of the last entry with that relation.
C9_LastEntryShadows ==
    (/\ op.name = "get_entry_href"
     /\ api_entry # << >>
     /\ Matches(api_entry[1], op.verb) # {}) =>
        /\ ~Raised(result)
        /\ result.val = api_entry[1][LastMatch(api_entry[1], op.verb)].href

\* C9 witness: the relation occurs twice with different addresses and the
\* lookup returned the later one.
C9_Witness ==
    /\ op.name = "get_entry_href"
    /\ api_entry # << >>
    /\ \E i, j \in Matches(api_entry[1], op.verb) :
         /\ i < j
         /\ api_entry[1][i].href # api_entry[1][j].href
         /\ j = LastMatch(api_entry[1], op.verb)
         /\ result.val = api_entry[1][j].href

\* The relation verb occurs in no entry of the cached directory (which may be
\* empty or not discovered yet).
Absent(verb) ==
    api_entry = << >> \/ Matches(api_entry[1], verb) = {}

\* C10 as stated: a lookup of an absent relation raises UnsupportedEntryPoint
\* naming the relation and the negotiated version, for every directory.
C10_AbsentIsUnsupported ==
    (op.name = "get_entry_href" /\ Absent(op.verb)) =>
        /\ result.exc = "UnsupportedEntryPoint"
        /\ result.verb = op.verb
        /\ result.version = api_version

\* C10 amended: a lookup of an absent relation never returns an address; in
\* a non-empty directory it raises UnsupportedEntryPoint naming the relation
\* and the negotiated version, in an empty or undiscovered directory it
\* raises SMCConnectionError.
C10_AbsentRaises ==
    (op.name = "get_entry_href" /\ Absent(op.verb)) =>
        /\ Raised(result)
        /\ result.val = NoHref
        /\ IF api_entry # << >> /\ api_entry[1] # << >>
           THEN /\ result.exc = "UnsupportedEntryPoint"
                /\ result.verb = op.verb
                /\ result.version = api_version
           ELSE result.exc = "SMCConnectionError"

\* C10 witness: a lookup in a non-empty directory that lacks the relation.
C10_Witness ==
    /\ op.name = "get_entry_href"
    /\ api_entry # << >>
    /\ api_entry[1] # << >>
    /\ Matches(api_entry[1], op.verb) = {}
    /\ result.exc = "UnsupportedEntryPoint"
    /\ result.version = 650

\* ------------------------------------------------------------------------
\* Properties of the discovery made by Session.login
\* ------------------------------------------------------------------------
VersionQueries(rs) == SelectSeq(rs, LAMBDA r : r.kind = "GET versions")

\* v is the greatest of the numbers that the identifiers ids denote.
IsNumericMax(v, ids) ==
    /\ \E i \in 1..Len(ids) : Float(ids[i]) = v
    /\ \A i \in 1..Len(ids) : Float(ids[i]) <= v

\* C11: after a login that returned, the negotiated version is the numeric
\* maximum of the identifiers the version discovery listed when no version
\* was passed; when a version was passed, no version discovery was queried
\* and the negotiated version is the one passed.
C11_NegotiatedVersion ==
    (op.name = "login" /\ ~Raised(result)) =>
        LET asked   == given[1].api_version
            queries == VersionQueries(reqs)
        IN  IF asked = NoVersion
            THEN /\ queries # << >>
                 /\ IsNumericMax(api_version, queries[Len(queries)].versions)
            ELSE /\ queries = << >>
                 /\ api_version = asked

\* C11 restricted to the calls that pass url and api_key.
C11_WithUrlAndKey ==
    (op.name = "login" /\ ~Raised(result) /\ given[1].url # None) =>
        LET asked   == given[1].api_version
            queries == VersionQueries(reqs)
        IN  IF asked = NoVersion
            THEN /\ Len(queries) = 1
                 /\ IsNumericMax(api_version, queries[1].versions)
            ELSE /\ queries = << >>
                 /\ api_version = asked

\* Every credential POST of rs comes after a successful query of the
\* versioned root.
DiscoveryBeforePost(rs) ==
    \A i \in 1..Len(rs) :
        rs[i].kind = "POST login" =>
            \E j \in 1..(i - 1) : /\ rs[j].kind = "GET entry points"
                                  /\ rs[j].status = HTTP_OK

RootQueryFailed(rs) ==
    \E i \in 1..Len(rs) : /\ rs[i].kind = "GET entry points"
                          /\ rs[i].status # HTTP_OK

\* C12: login discovers the entry points before it posts the credential;
\* a login in which the query of the versioned root does not return success
\* raises SMCConnectionError, issues no credential POST and leaves the
\* directory and the negotiated version as they were before the call.
C12_FailedRootQueryStopsLogin ==
    [][ op'.name = "login" =>
            /\ DiscoveryBeforePost(reqs')
            /\ RootQueryFailed(reqs') =>
                  /\ result'.exc = "SMCConnectionError"
                  /\ Posts(reqs') = << >>
                  /\ api_entry' = api_entry
                  /\ api_version' = api_version ]_vars

\* C12 restricted to the calls that pass url and api_key.
C12_WithUrlAndKey ==
    [][ (op'.name = "login" /\ given'[1].url # None) =>
            /\ DiscoveryBeforePost(reqs')
            /\ RootQueryFailed(reqs') =>
                  /\ result'.exc = "SMCConnectionError"
                  /\ Posts(reqs') = << >>
                  /\ api_entry' = api_entry
                  /\ api_version' = api_version ]_vars

\* C13: at most one session opened by this client is live on the server.
C13_AtMostOneLiveSession == Cardinality(live) <= 1

\* No state follows a login with url and api_key that opened the second
\* transport while the session of the first is still live on the server.
C13_TwoPlainLogins ==
    ~ /\ Cardinality(live) = 2
      /\ op.name = "login"
      /\ given[1].url # None
      /\ ~Raised(result)
      /\ nextTransport = 3

\* ------------------------------------------------------------------------
\* Properties of SessionCache.get_element_filters
\* ------------------------------------------------------------------------
HasPrefix(s, prefix) ==
    /\ Len(prefix) <= Len(s)
    /\ SubSeq(s, 1, Len(prefix)) = prefix

Elements(list) == { list[i] : i \in 1..Len(list) }

NoDuplicates(list) ==
    \A i, j \in 1..Len(list) : i # j => list[i] # list[j]

\* The suffixes s for which some entry of directory d has the address
\* base + "/" + s.
SuffixesUnder(base, d) ==
    { SubSeq(d[i].href, Len(base) + 2, Len(d[i].href)) :
        i \in { k \in 1..Len(d) : HasPrefix(d[k].href, base \o << "/" >>) } }

BaseAddress(d) == d[LastMatch(d, "elements")].href

Filtered == op.name = "get_element_filters" /\ ~Raised(result)

\* C14: get_element_filters returns exactly the distinct suffixes s such
\* that some entry has the address base_address + "/" + s, none of them
\* twice; the base entry and the entries whose address does not start with
\* base_address + "/" contribute nothing.
C14_DistinctSuffixesUnderBase ==
    Filtered =>
        LET base == BaseAddress(api_entry[1])
            list == result.val[1]
        IN  /\ Elements(list) = SuffixesUnder(base, api_entry[1])
            /\ NoDuplicates(list)

\* C14 for the directories whose addresses are pairwise different, whose
\* base address has no "." and is not found inside another address.
C14_ForPlainDirectories ==
    (/\ Filtered
     /\ LET d    == api_entry[1]
            base == BaseAddress(d)
        IN  /\ \A i, j \in 1..Len(d) : i # j => d[i].href # d[j].href
            /\ \A k \in 1..Len(base) : base[k] # "."
            /\ \A i \in 1..Len(d) :
                  finditer(base \o << "/" >>, d[i].href) # << >>
                      => HasPrefix(d[i].href, base \o << "/" >>))
    => LET base == BaseAddress(api_entry[1])
           list == result.val[1]
       IN  /\ Elements(list) = SuffixesUnder(base, api_entry[1])
           /\ NoDuplicates(list)

\* ------------------------------------------------------------------------
\* Properties of RuleElement
\* ------------------------------------------------------------------------
AnyAlone(d) == d.any /\ ~d.none /\ ~d.has

NoneAlone(d) == d.none /\ ~d.any /\ ~d.has

ListAlone(d) == d.has /\ ~d.any /\ ~d.none

Marker(d) == AnyAlone(d) \/ NoneAlone(d)

\* C15: a field that starts in one of the three forms has exactly one form
\* active after any sequence of set_any, set_none, add and add_many: 'any'
\* alone, 'none' alone or the list alone.
C15_ExactlyOneForm == AnyAlone(data) \/ NoneAlone(data) \/ ListAlone(data)

C15_Witness ==
    /\ op.name = "set_any"
    /\ ListAlone(was) /\ was.list # << >>
    /\ AnyAlone(data)

\* C16: add(x) right after set_any() or set_none(), for an x that resolves,
\* leaves no marker and a list holding exactly the locator of x; is_any and
\* is_none are false afterwards.
C16_AddAfterMarker ==
    [][ (op.name \in {"set_any", "set_none"} /\ op'.name = "add"
         /\ ~Raised(element_resolver(given'[1])))
        => /\ ~is_any(data') /\ ~is_none(data')
           /\ data'.has
           /\ data'.list = << element_resolver(given'[1]).val >> ]_vars

C16_Witness ==
    /\ op.name = "add"
    /\ AnyAlone(was)
    /\ given[1].kind = "Element" /\ given[1].found
    /\ data = Dict(FALSE, FALSE, TRUE, << given[1].href >>)

\* An x that does not resolve is skipped: the marker is cleared and the
\* list is left empty.
C16_UnresolvedIsSkipped ==
    [][ (op.name \in {"set_any", "set_none"} /\ op'.name = "add"
         /\ Raised(element_resolver(given'[1])))
        => /\ data' = Dict(FALSE, FALSE, TRUE, << >>)
           /\ ~Raised(result') ]_vars

\* C17: add_many([]) on a field in the 'any' or 'none' state leaves an empty
\* list and no marker: is_any and is_none are false and all() returns [].
C17_AddManyNothingOnMarker ==
    (/\ op.name = "add_many"
     /\ Marker(was)
     /\ given[1] = Argument(TRUE, << >>))
    => /\ ~is_any(data) /\ ~is_none(data)
       /\ data.has /\ data.list = << >>
       /\ all(data).result = Return(<< << >> >>, None)

C17_Witness ==
    /\ op.name = "add_many"
    /\ NoneAlone(was)
    /\ given[1] = Argument(TRUE, << >>)
    /\ data = Dict(FALSE, FALSE, TRUE, << >>)

\* The locators of the items that resolve, in the order of the items.
Resolvable(items) == SelectSeq(items, LAMBDA x : x.found)

LocatorsOf(items) == [i \in 1..Len(Resolvable(items)) |-> Resolvable(items)[i].href]

C18_NotAListWitness ==
    /\ op.name = "add_many"
    /\ ~given[1].islist
    /\ result.exc = "AssertionError"
    /\ AnyAlone(data)

\* C19: all() returns [] when the field is in the 'any' or 'none' state and
\* otherwise one handle per locator of the list, in list order and of the
\* same length; it never changes the field.
C19_AllResolvesInOrder ==
    op.name = "all" =>
        /\ data = was
        /\ ~Raised(result)
        /\ Len(result.val) = 1
        /\ IF is_any(data) \/ is_none(data)
           THEN result.val[1] = << >>
           ELSE /\ Len(result.val[1]) = Len(data.list)
                /\ \A i \in 1..Len(data.list) :
                      result.val[1][i] = Handle(data.list[i])

C19_Witness ==
    /\ op.name = "all"
    /\ data.list = << <<"b">>, <<"a">> >>
    /\ result.val = << << Handle(<<"b">>), Handle(<<"a">>) >> >>

C19_MarkerWitness ==
    /\ op.name = "all"
    /\ AnyAlone(data)
    /\ result.val = << << >> >>

\* C20: all_as_href returns [] when the field is in the 'any' or 'none'
\* state and otherwise the locators of the list in list order; in every
\* state what it returns is a list.
C20_AllAsHrefReturnsList ==
    op.name = "all_as_href" =>
        /\ data = was
        /\ ~Raised(result)
        /\ Len(result.val) = 1
        /\ IF is_any(data) \/ is_none(data)
           THEN result.val[1] = << >>
           ELSE result.val[1] = data.list

\* C20 for the fields that hold a list.
C20_ForLists ==
    (op.name = "all_as_href" /\ ListAlone(data)) =>
        /\ data = was
        /\ result = Return(<< data.list >>, None)

\* In the 'any' and 'none' states all_as_href returns None.
C20_MarkerGivesNone ==
    (op.name = "all_as_href" /\ Marker(data)) =>
        /\ data = was
        /\ result = Return(<< >>, None)

\* C21: add of an item that does not resolve raises nothing and appends
\* nothing: the list holds what it held before the call, and is the empty
\* list when the field was in a marker state.
C21_UnresolvedAddAppendsNothing ==
    (op.name = "add" /\ Raised(element_resolver(given[1]))) =>
        /\ ~Raised(result)
        /\ ListAlone(data)
        /\ data.list = (IF Marker(was) THEN << >> ELSE was.list)

C21_Witness ==
    /\ op.name = "add"
    /\ ~given[1].found
    /\ ListAlone(was) /\ was.list = << <<"b">>, <<"a">> >>
    /\ data = was
    /\ ~Raised(result)

C21_MarkerWitness ==
    /\ op.name = "add"
    /\ ~given[1].found
    /\ NoneAlone(was)
    /\ data = Dict(FALSE, FALSE, TRUE, << >>)

\* ------------------------------------------------------------------------
\* Properties of LogOptions
\* ------------------------------------------------------------------------
\* C30: assigning log_level a value outside none, stored, transient,
\* essential, alert leaves every log option unchanged.
C30_RejectedLevelChangesNothing ==
    (op.name = "log_level" /\ given[1] \notin LogLevels) => data = was

\* The level itself is left alone by a rejected assignment.
C30_RejectedLevelKeepsLevel ==
    (op.name = "log_level" /\ given[1] \notin LogLevels) =>
        data = [was EXCEPT !.log_accounting_info_mode =
                    IF Falsy(@) THEN "True" ELSE @]

\* application_logging and user_logging ignore a value outside their set.
C30_OtherSettersChangeNothing ==
    (op.name \in {"application_logging", "user_logging"}
     /\ given[1] \notin LoggingModes) => data = was

\* ------------------------------------------------------------------------
\* Properties of one login call
\* ------------------------------------------------------------------------
EntryPointQueries(rs) == SelectSeq(rs, LAMBDA r : r.kind = "GET entry points")

\* C28: a login call performs one entry-point discovery and one credential
\* POST, never more, and exactly one of each when it returns; also when url
\* and api_key are omitted and read from the configuration.
C28_OneDiscoveryOnePost ==
    op.name = "login" =>
        /\ Len(EntryPointQueries(reqs)) <= 1
        /\ Len(Posts(reqs)) <= 1
        /\ ~Raised(result) => /\ Len(EntryPointQueries(reqs)) = 1
                              /\ Len(Posts(reqs)) = 1

\* C28 restricted to the calls that pass url and api_key.
C28_WithUrlAndKey ==
    (op.name = "login" /\ given[1].url # None) =>
        /\ Len(EntryPointQueries(reqs)) <= 1
        /\ Len(Posts(reqs)) <= 1
        /\ ~Raised(result) => /\ Len(EntryPointQueries(reqs)) = 1
                              /\ Len(Posts(reqs)) = 1

\* C29: a login that fails on a Session holding a bound transport leaves
\* the stored url, api_key, negotiated version, directory and bound
\* transport as they were.
C29_FailedLoginKeepsSession ==
    [][ (op'.name = "login" /\ Raised(result') /\ session # NoSession) =>
            /\ url' = url
            /\ api_key' = api_key
            /\ api_version' = api_version
            /\ api_entry' = api_entry
            /\ session' = session ]_vars

\* C29 restricted to the calls that pass url and api_key.
C29_WithUrlAndKey ==
    [][ (op'.name = "login" /\ Raised(result') /\ session # NoSession
         /\ given'[1].url # None) =>
            /\ url' = url
            /\ api_key' = api_key
            /\ api_version' = api_version
            /\ api_entry' = api_entry
            /\ session' = session ]_vars

\* With url and api_key passed, a failed login keeps the bound transport;
\* a failed credential POST still replaces the version and the directory.
C29_WithUrlAndKeyKeepsTransport ==
    [][ (op'.name = "login" /\ Raised(result') /\ session # NoSession
         /\ given'[1].url # None) => session' = session ]_vars

\* ------------------------------------------------------------------------
\* Properties of http_unauthorized under two callers
\* ------------------------------------------------------------------------
Returned(c) == pc[c] \in { "too_many", "no_session", "login_failed", "logged_in" }

\* C27: two callers that share the Session and are both answered 401 by the
\* one expiry each call http_unauthorized; whenever both calls are over,
\* one of them has failed with 'Too many HTTP 401 requests', so there is an
\* interleaving in which it does although the session expired only once.
C27_OneExpiryFailsACaller ==
    (\A c \in Callers : Returned(c)) => \E c \in Callers : pc[c] = "too_many"

\* One caller has logged in again, the other was refused; the server was
\* asked for a single new session.
C27_Witness ==
    /\ pc["A"] = "logged_in"
    /\ pc["B"] = "too_many"
    /\ http_401 = Threshold401
    /\ nextTransport = 3
    /\ live = {2}

\* Both callers are refused when both count before either checks.
C27_BothRefused ==
    ~ (\A c \in Callers : pc[c] = "too_many")

\* ------------------------------------------------------------------------
\* Properties of modify_attribute (Node, InternalGateway)
\* ------------------------------------------------------------------------
\* C22: the write carries the token captured when the object was loaded: a
\* write is accepted only if the resource is still the version the object
\* was loaded from, so that no change another client made after the load is
\* overwritten.
C22_NoLostUpdate ==
    pc = "accepted" => proxy.replaced = proxy.basis

\* C22 for InternalGateway alone, whose write carries an etag.
C22_ForInternalGateway ==
    (pc = "accepted" /\ proxy.kind = "InternalGateway")
        => proxy.replaced = proxy.basis

\* What InternalGateway.modify_attribute does guarantee: the version it
\* replaces is the one it read just before the write.
C22_ReplacesWhatWasFetched ==
    (pc = "accepted" /\ proxy.kind = "InternalGateway")
        => proxy.replaced = proxy.fetched

\* C24: a write the server refuses leaves the local field mapping as the
\* caller had set it before the write: nothing is rolled back, nothing is
\* replaced by the server's values.
C24_RejectedCommitKeepsLocal ==
    [][ pc' = "rejected" => proxy'.json = proxy.json ]_vars

C24_Witness ==
    /\ pc = "rejected"
    /\ proxy.json = [Original EXCEPT !["a"] = "mine"]
    /\ server.json = [Original EXCEPT !["b"] = "theirs"]

\* ------------------------------------------------------------------------
\* Properties of the Engine object and its settings
\* ------------------------------------------------------------------------
Called(names) == pc = "called" /\ op.name \in names

Deferred == given # << >> /\ ~ given[1].autocommit

WriteRequests(rs) ==
    { i \in 1..Len(rs) : rs[i].kind \in { "PUT element", "POST vpn_site" } }

\* The functions declared with the autocommit decorator, Engine.modify_attribute
\* and the SubDict setters.
QueuedSetters ==
    { "modify_attribute", "enable_default_nat", "disable_default_nat",
      "add_tls_credential", "remove_tls_credential", "connection_tracking" }

\* The enable_*, disable_*, add_* operations of AddOn with the others.
Setters == QueuedSetters \cup { "add_vpn_site" }

\* C23: a setter called without autocommit issues no write request and
\* leaves the element on the server as it is; only the local field mapping
\* may change.
C23_SettersWriteNothing ==
    [][ (Called(Setters)' /\ Deferred')
            => (server' = server /\ WriteRequests(reqs') = { }) ]_vars

\* C23 without add_vpn_site, which creates the site on the server in the
\* call: Engine.modify_attribute, the operations declared with the
\* autocommit decorator and the SubDict setters write nothing unless
\* autocommit=True is given.
C23_QueuedSettersWriteNothing ==
    [][ (Called(QueuedSetters)' /\ Deferred')
            => (server' = server /\ WriteRequests(reqs') = { }) ]_vars

\* Default NAT is enabled locally and not on the server.
C23_Witness ==
    /\ Called({ "enable_default_nat" })
    /\ Deferred
    /\ proxy.data.default_nat
    /\ ~ server.json.default_nat
    /\ reqs = << >>

\* With autocommit=True the change is on the server at the end of the call.
C23_AutocommitWrites ==
    (Called(QueuedSetters) /\ given # << >> /\ given[1].autocommit)
        => (server.json = proxy.data /\ WriteRequests(reqs) # { })

\* C25: after a load that succeeded the engine's field mapping and links
\* are the ones the server returned for this load.
C25_LoadReplacesWholesale ==
    (Called({ "load" }) /\ ~ Raised(result))
        => (proxy.data = server.json /\ proxy.link = server.json.link)

\* What load does give: the engine it returns holds exactly what the server
\* returned.
C25_ReturnedEngineIsTheServers ==
    (Called({ "load" }) /\ ~ Raised(result))
        => /\ result.val.data = server.json
           /\ result.val.link = server.json.link
           /\ Len(result.val.nodes) = Len(server.json.nodes)

\* A load that finds no element raises LoadEngineFailed and changes
\* nothing.
C25_FailedLoadChangesNothing ==
    [][ (Called({ "load" })' /\ Raised(result'))
            => /\ result'.exc = "LoadEngineFailed"
               /\ proxy' = proxy
               /\ server' = server ]_vars

GivenCredentials == Elements(element_resolver_list(given[1].args))

\* C26: after remove_tls_credential none of the credentials given is in
\* server_credential, and every credential configured before that was not
\* given still is.
C26_RemovesTheGivenOnly ==
    [][ Called({ "remove_tls_credential" })'
            => LET before == Elements(server_credential(proxy))
                   after == Elements(server_credential(proxy'))
               IN  /\ GivenCredentials' \cap after = { }
                   /\ before \ GivenCredentials' \subseteq after ]_vars

\* What remove_tls_credential leaves: the credentials given that were not
\* configured.
C26_KeepsTheGivenNotConfigured ==
    [][ Called({ "remove_tls_credential" })'
            => Elements(server_credential(proxy'))
                   = GivenCredentials' \ Elements(server_credential(proxy)) ]_vars

====
